---- MODULE Spec2Model ----
(***************************************************************************)
(* The outline addon of content/creating-addons/react/en/decorators.md:    *)
(* the style helpers of src/helpers.js (clearStyles, clearStyle,           *)
(* addOutlineStyles), the style text of src/outlineCSS.js and the          *)
(* withGlobals decorator of src/withGlobals.js, over a model of the part   *)
(* of the DOM they touch: the <style> children of document.head.           *)
(*                                                                         *)
(* Keys are the element ids withGlobals builds (never empty), texts are    *)
(* the style texts outlineCSS builds (LF newlines, no markup), so that     *)
(* getElementById finds an element by its id and innerHTML reads back what *)
(* was written.                                                            *)
(***************************************************************************)
EXTENDS Naturals, Sequences, FiniteSets, TLC

VARIABLES
    head,           \* the <style> children of document.head, in document order
    headAttached,   \* document.head is an element of the document (not null)
    nextNode,       \* the identity the next document.createElement returns
    last,           \* history: the last helper call made by a caller, and what it did
    lastOn,         \* history: per key, the last helper call naming it on an available surface
    outlineActive,  \* globals.outlineActive, the toolbar toggle
    ctx             \* per decorated story: its context and its hook slots

vars == <<head, headAttached, nextNode, last, lastOn, outlineActive, ctx>>

----------------------------------------------------------------------------
(* Bounds *)

MaxNodes == 3       \* elements document.createElement may create in a run
MaxClearLen == 2    \* longest array handed to clearStyles
NumContexts == 2    \* decorated stories alive at once (a docs page shows several)

(* context.id values: the stories of Header.stories.js *)
Ids == {"composite-header--default", "composite-header--inverted"}

ViewModes == {"story", "docs"}

----------------------------------------------------------------------------
(* src/outlineCSS.js: the rules all have the shape `${selector} <tag> {...}`; *)
(* the text is a function of the selector alone, and is injective in it.      *)
outlineCSS(selector) ==
    selector \o " body { outline: 1px solid #2980b9 !important; } "
        \o selector \o " article { outline: 1px solid #3498db !important; }"

(* const selector = isInDocs ? `#anchor--${context.id} .docs-story` : '.sb-show-main' *)
Selector(isInDocs, id) ==
    IF isInDocs THEN "#anchor--" \o id \o " .docs-story" ELSE ".sb-show-main"

(* const selectorId = isInDocs ? `addon-outline-docs-${context.id}` : `addon-outline` *)
SelectorId(isInDocs, id) ==
    IF isInDocs THEN "addon-outline-docs-" \o id ELSE "addon-outline"

Keys == {SelectorId(d, i) : d \in BOOLEAN, i \in Ids}
Texts == {outlineCSS(Selector(d, i)) : d \in BOOLEAN, i \in Ids}

----------------------------------------------------------------------------
(* The document as a running call sees it: the head's children, whether the *)
(* head is there, the next element identity, the DOM mutations the call has *)
(* made so far and the error it has thrown ("" while it has thrown none).   *)

Doc(h, a, n) == [head |-> h, attached |-> a, nextNode |-> n, ops |-> <<>>, err |-> ""]

Op(kind, node) == [kind |-> kind, node |-> node]

(* document.getElementById(id): the index in head of the first element of the *)
(* document with that id, 0 for null. A head that is not in the document      *)
(* hides its children.                                                        *)
getElementById(D, id) ==
    IF D.attached /\ \E i \in 1..Len(D.head) : D.head[i].id = id
    THEN CHOOSE i \in 1..Len(D.head) :
            /\ D.head[i].id = id
            /\ \A j \in 1..(i - 1) : D.head[j].id # id
    ELSE 0

(* element.parentElement.removeChild(element) *)
removeChild(D, i) ==
    [D EXCEPT !.head = SubSeq(D.head, 1, i - 1) \o SubSeq(D.head, i + 1, Len(D.head)),
              !.ops = Append(D.ops, Op("removeChild", D.head[i].node))]

(* existingStyle.innerHTML = css *)
setInnerHTML(D, i, css) ==
    [D EXCEPT !.head[i].html = css,
              !.ops = Append(D.ops, Op("innerHTML", D.head[i].node))]

(* A faulty clearStyle: no test of the element before its parentElement is read. *)
clearStyle_Unguarded(D, selector) ==
    LET element == getElementById(D, selector) IN
    IF D.err # "" THEN D
    ELSE IF element = 0 THEN [D EXCEPT !.err = "TypeError"]
    ELSE removeChild(D, element)

(* const clearStyle = selector => {...}: an element found by id is a child of *)
(* the head, so its parentElement is not null.                                *)
clearStyle(D, selector) ==
    LET element == getElementById(D, selector) IN
    IF D.err # "" THEN D
    ELSE IF element # 0 THEN removeChild(D, element)
    ELSE D

(* selectors.forEach(clearStyle) *)
RECURSIVE forEachClearStyle(_, _)
forEachClearStyle(D, selectors) ==
    IF selectors = <<>> THEN D
    ELSE forEachClearStyle(clearStyle(D, Head(selectors)), Tail(selectors))

(* A faulty clearStyles: only the first key of an array is cleared. *)
clearStyles_FirstOnly(D, selector) ==
    IF selector.items = <<>> THEN D ELSE clearStyle(D, Head(selector.items))

(* export const clearStyles = selector => {...}: the argument is a key         *)
(* (isArray FALSE, items the one key) or an array of keys (isArray TRUE).      *)
clearStyles(D, selector) ==
    LET selectors == IF selector.isArray THEN selector.items ELSE <<Head(selector.items)>>
    IN forEachClearStyle(D, selectors)

(* Faulty variants of addOutlineStyles: no lookup of an existing element; an  *)
(* existing element left with its old content; the element replaced by a new *)
(* one; the content written without comparing it; no failure on a null head. *)
addOutlineStyles_AlwaysAppend(D, selector, css) ==
    [D EXCEPT !.head = Append(D.head, [node |-> D.nextNode, id |-> selector, html |-> css]),
              !.nextNode = D.nextNode + 1,
              !.ops = D.ops \o <<Op("createElement", D.nextNode), Op("appendChild", D.nextNode)>>]

addOutlineStyles_KeepContent(D, selector, css) ==
    IF getElementById(D, selector) # 0 THEN D
    ELSE addOutlineStyles_AlwaysAppend(D, selector, css)

addOutlineStyles_Reinsert(D, selector, css) ==
    LET existingStyle == getElementById(D, selector) IN
    IF existingStyle # 0 /\ D.head[existingStyle].html # css
    THEN addOutlineStyles_AlwaysAppend(removeChild(D, existingStyle), selector, css)
    ELSE IF existingStyle # 0 THEN D
    ELSE addOutlineStyles_AlwaysAppend(D, selector, css)

addOutlineStyles_AlwaysWrite(D, selector, css) ==
    LET existingStyle == getElementById(D, selector) IN
    IF existingStyle # 0 THEN setInnerHTML(D, existingStyle, css)
    ELSE addOutlineStyles_AlwaysAppend(D, selector, css)

addOutlineStyles_NoHeadCheck(D, selector, css) ==
    LET existingStyle == getElementById(D, selector) IN
    IF existingStyle # 0
    THEN IF D.head[existingStyle].html # css THEN setInnerHTML(D, existingStyle, css) ELSE D
    ELSE addOutlineStyles_AlwaysAppend(D, selector, css)

(* export const addOutlineStyles = (selector, css) => {...} *)
addOutlineStyles(D, selector, css) ==
    LET existingStyle == getElementById(D, selector) IN
    IF D.err # "" THEN D
    ELSE IF existingStyle # 0
    THEN IF D.head[existingStyle].html # css
         THEN setInnerHTML(D, existingStyle, css)
         ELSE D
    ELSE LET style == D.nextNode
             created == [D EXCEPT !.nextNode = style + 1,
                                  !.ops = Append(D.ops, Op("createElement", style))]
         IN  IF ~D.attached
             THEN [created EXCEPT !.err = "TypeError"]   \* document.head is null
             ELSE [created EXCEPT
                     !.head = Append(D.head, [node |-> style, id |-> selector, html |-> css]),
                     !.ops = Append(created.ops, Op("appendChild", style))]

----------------------------------------------------------------------------
(* The callers' view of a call, kept as history. *)

NoCall == [op |-> "none", isArray |-> FALSE, selectors |-> <<>>, css |-> "",
           before |-> <<>>, attached |-> TRUE, ops |-> <<>>, err |-> ""]

NoneOn == [op |-> "none", css |-> ""]

MarkAll(f, selectors, v) == [k \in DOMAIN f |-> IF \E i \in 1..Len(selectors) : selectors[i] = k
                                                THEN v ELSE f[k]]

(* A hook slot that holds nothing yet, and a story that is not on the page. *)
NoMemo == [set |-> FALSE, deps |-> "", value |-> ""]

NoEffect == [set |-> FALSE, deps |-> [isActive |-> FALSE, outlineStyles |-> "", id |-> ""],
             destroy |-> ""]

NoRender == [done |-> FALSE, outlineActive |-> FALSE, viewMode |-> "story", id |-> ""]

NoContext == [mounted |-> FALSE, viewMode |-> "story", id |-> "",
              memo |-> NoMemo, effect |-> NoEffect, rendered |-> NoRender,
              error |-> "", switchedFrom |-> ""]

Init ==
    /\ head = <<>>
    /\ headAttached = TRUE
    /\ nextNode = 1
    /\ last = NoCall
    /\ lastOn = [k \in Keys |-> NoneOn]
    /\ outlineActive = FALSE
    /\ ctx = [c \in 1..NumContexts |-> NoContext]

(* A caller calls addOutlineStyles(k, t). *)
Apply(k, t) ==
    \E D \in {addOutlineStyles(Doc(head, headAttached, nextNode), k, t)} :
    /\ nextNode <= MaxNodes
    /\ head' = D.head
    /\ nextNode' = D.nextNode
    /\ last' = [op |-> "addOutlineStyles", isArray |-> FALSE, selectors |-> <<k>>, css |-> t,
                before |-> head, attached |-> headAttached, ops |-> D.ops, err |-> D.err]
    /\ lastOn' = IF headAttached THEN [lastOn EXCEPT ![k] = [op |-> "addOutlineStyles", css |-> t]]
                  ELSE lastOn
    /\ UNCHANGED <<headAttached, outlineActive, ctx>>

(* A caller calls clearStyles(selector). *)
Clear(selector) ==
    \E D \in {clearStyles(Doc(head, headAttached, nextNode), selector)} :
    /\ head' = D.head
    /\ nextNode' = D.nextNode
    /\ last' = [op |-> "clearStyles", isArray |-> selector.isArray,
                selectors |-> selector.items, css |-> "",
                before |-> head, attached |-> headAttached, ops |-> D.ops, err |-> D.err]
    /\ lastOn' = IF headAttached
                  THEN MarkAll(lastOn, selector.items, [op |-> "clearStyles", css |-> ""])
                  ELSE lastOn
    /\ UNCHANGED <<headAttached, outlineActive, ctx>>

(* The arrays handed to clearStyles: the lists of distinct keys, up to MaxClearLen long. *)
KeySeqs == {s \in UNION {[1..n -> Keys] : n \in 0..MaxClearLen} :
                \A i, j \in 1..Len(s) : s[i] = s[j] => i = j}

ClearArgs == {[isArray |-> FALSE, items |-> <<k>>] : k \in Keys}
                \cup {[isArray |-> TRUE, items |-> s] : s \in KeySeqs}

ApplyAny == \E k \in Keys, t \in Texts : Apply(k, t)

ClearAny == \E selector \in ClearArgs : Clear(selector)

Next == ApplyAny \/ ClearAny

Spec == Init /\ [][Next]_vars

----------------------------------------------------------------------------
(* The surface going away and coming back: document.head is null while the *)
(* head element is out of the document, and its children come back with it. *)

SurfaceLost ==
    /\ headAttached
    /\ headAttached' = FALSE
    /\ UNCHANGED <<head, nextNode, last, lastOn, outlineActive, ctx>>

SurfaceRestored ==
    /\ ~headAttached
    /\ headAttached' = TRUE
    /\ UNCHANGED <<head, nextNode, last, lastOn, outlineActive, ctx>>

NextSurface == ApplyAny \/ ClearAny \/ SurfaceLost \/ SurfaceRestored

SpecSurface == Init /\ [][NextSurface]_vars

----------------------------------------------------------------------------
(* src/withGlobals.js. A decorated story keeps its context (viewMode, id),   *)
(* its useMemo and useEffect slots, the inputs of its last render (history), *)
(* the error its last render threw and, once its view mode was switched      *)
(* while the outline was active, the key of the mode it left (history).      *)
(* The hooks are the React-like ones of @storybook/addons: a slot recomputes *)
(* when its dependency list changes between renders, an effect's cleanup     *)
(* runs before the effect runs again and when the story is torn down.        *)

(* `isActive` in the dependency list and in the effect: the snippet declares *)
(* no such name (useGlobals gives `outlineActive`), the reference does not   *)
(* resolve.                                                                  *)
isActive == [bound |-> FALSE, value |-> FALSE]

(* `isActive` as the name of the toggle, the reading the specification takes. *)
isActiveIntended == [bound |-> TRUE, value |-> outlineActive]

(* const outlineStyles = useMemo(() => outlineCSS(selector), [context.id]) *)
useMemo(self) ==
    IF self.memo.set /\ self.memo.deps = self.id
    THEN self.memo
    ELSE [set |-> TRUE, deps |-> self.id,
          value |-> outlineCSS(Selector(self.viewMode = "docs", self.id))]

(* The body of the effect: useEffect(() => {...}) *)
effectBody(D, self, active, outlineStyles) ==
    LET selectorId == SelectorId(self.viewMode = "docs", self.id) IN
    IF ~active
    THEN [doc |-> clearStyles(D, [isArray |-> FALSE, items |-> <<selectorId>>]), destroy |-> ""]
    ELSE [doc |-> addOutlineStyles(D, selectorId, outlineStyles), destroy |-> selectorId]

(* return () => { clearStyles(selectorId); } *)
runDestroy(D, effect) ==
    IF effect.set /\ effect.destroy # ""
    THEN clearStyles(D, [isArray |-> FALSE, items |-> <<effect.destroy>>])
    ELSE D

(* export const withGlobals = (StoryFn, context) => {...}, with the effect it *)
(* schedules run: one render of the story `self` under the toggle value       *)
(* `toggle`, `ref` being what the name isActive resolves to.                  *)
withGlobals(D, self, toggle, ref) ==
    LET memo == useMemo(self)
        seen == [done |-> TRUE, outlineActive |-> toggle,
                 viewMode |-> self.viewMode, id |-> self.id]
        deps == [isActive |-> ref.value, outlineStyles |-> memo.value, id |-> self.id]
    IN  IF ~ref.bound
        THEN [doc |-> D,
              hooks |-> [self EXCEPT !.memo = memo, !.rendered = seen,
                                     !.error = "ReferenceError"]]
        ELSE IF self.effect.set /\ self.effect.deps = deps
        THEN [doc |-> D,
              hooks |-> [self EXCEPT !.memo = memo, !.rendered = seen, !.error = ""]]
        ELSE LET ran == effectBody(runDestroy(D, self.effect), self, ref.value, memo.value)
             IN  [doc |-> ran.doc,
                  hooks |-> [self EXCEPT !.memo = memo, !.rendered = seen, !.error = "",
                                         !.effect = [set |-> TRUE, deps |-> deps,
                                                     destroy |-> ran.destroy]]]

Mounted == {c \in 1..NumContexts : ctx[c].mounted}

(* The story view shows one story; a docs page shows several, each with its own id. *)
CanShow(c, viewMode, id) ==
    \A o \in Mounted \ {c} :
        /\ viewMode = "docs"
        /\ ctx[o].viewMode = "docs"
        /\ ctx[o].id # id

(* The user flips the outline tool of the toolbar. *)
ToggleOutline ==
    /\ outlineActive' = ~outlineActive
    /\ UNCHANGED <<head, headAttached, nextNode, last, lastOn, ctx>>

(* A story comes onto the page, with fresh hook slots. *)
Mount(c, viewMode, id) ==
    /\ ~ctx[c].mounted
    /\ CanShow(c, viewMode, id)
    /\ ctx' = [ctx EXCEPT ![c] = [NoContext EXCEPT !.mounted = TRUE,
                                                   !.viewMode = viewMode, !.id = id]]
    /\ UNCHANGED <<head, headAttached, nextNode, last, lastOn, outlineActive>>

(* The story is rendered: the decorator runs, then the effect it scheduled. *)
Render(c, ref) ==
    /\ ctx[c].mounted
    /\ nextNode <= MaxNodes
    /\ \E r \in {withGlobals(Doc(head, headAttached, nextNode), ctx[c], outlineActive, ref)} :
          /\ head' = r.doc.head
          /\ nextNode' = r.doc.nextNode
          /\ ctx' = [ctx EXCEPT ![c] = r.hooks]
    /\ UNCHANGED <<headAttached, last, lastOn, outlineActive>>

(* The story's context changes under the mounted decorator: another view mode. *)
SetViewMode(c) ==
    LET to == IF ctx[c].viewMode = "docs" THEN "story" ELSE "docs" IN
    /\ ctx[c].mounted
    /\ CanShow(c, to, ctx[c].id)
    /\ ctx' = [ctx EXCEPT ![c].viewMode = to,
                          ![c].switchedFrom =
                              IF outlineActive
                              THEN SelectorId(ctx[c].viewMode = "docs", ctx[c].id)
                              ELSE ""]
    /\ UNCHANGED <<head, headAttached, nextNode, last, lastOn, outlineActive>>

(* The story's context changes under the mounted decorator: another context.id. *)
SetContextId(c, id) ==
    /\ ctx[c].mounted
    /\ id # ctx[c].id
    /\ CanShow(c, ctx[c].viewMode, id)
    /\ ctx' = [ctx EXCEPT ![c].id = id]
    /\ UNCHANGED <<head, headAttached, nextNode, last, lastOn, outlineActive>>

(* The story leaves the page: the cleanup its effect returned runs. *)
Teardown(c) ==
    /\ ctx[c].mounted
    /\ \E D \in {runDestroy(Doc(head, headAttached, nextNode), ctx[c].effect)} :
          /\ head' = D.head
          /\ nextNode' = D.nextNode
    /\ ctx' = [ctx EXCEPT ![c] = NoContext]
    /\ UNCHANGED <<headAttached, last, lastOn, outlineActive>>

MountAny == \E c \in 1..NumContexts, viewMode \in ViewModes, id \in Ids : Mount(c, viewMode, id)

SetViewModeAny == \E c \in 1..NumContexts : SetViewMode(c)

SetContextIdAny == \E c \in 1..NumContexts, id \in Ids : SetContextId(c, id)

TeardownAny == \E c \in 1..NumContexts : Teardown(c)

(* The decorator as the snippet has it. *)
RenderAsWritten == \E c \in 1..NumContexts : Render(c, isActive)

NextHooks ==
    ToggleOutline \/ MountAny \/ RenderAsWritten \/ SetViewModeAny \/ SetContextIdAny
        \/ TeardownAny

SpecHooks == Init /\ [][NextHooks]_vars

(* The decorator with isActive read as the toggle. *)
RenderIntended == \E c \in 1..NumContexts : Render(c, isActiveIntended)

NextIntended ==
    ToggleOutline \/ MountAny \/ RenderIntended \/ SetViewModeAny \/ SetContextIdAny
        \/ TeardownAny

SpecIntended == Init /\ [][NextIntended]_vars

----------------------------------------------------------------------------
(* The registry claims, over Spec: any sequence of addOutlineStyles and    *)
(* clearStyles calls from a surface with no blocks.                        *)

BlocksOf(h, k) == {i \in 1..Len(h) : h[i].id = k}

Listed(selectors, k) == \E i \in 1..Len(selectors) : selectors[i] = k

LastKey == IF last.selectors = <<>> THEN "" ELSE Head(last.selectors)

(* C1: at most one style block exists per StyleKey, in every reachable state. *)
C1_AtMostOneBlockPerKey ==
    \A k \in Keys : Cardinality(BlocksOf(head, k)) <= 1

(* C1's case: a key that already had a block was applied again, beside another key's block. *)
C1_Witness ==
    /\ last.op = "addOutlineStyles"
    /\ BlocksOf(last.before, LastKey) # {}
    /\ Len(head) >= 2

(* C2: the most recent call on a key wins: after addOutlineStyles(k, t) the key *)
(* has a block whose content is exactly t, after clearStyles naming k it has none. *)
C2_MostRecentCallWins ==
    \A k \in Keys :
        /\ lastOn[k].op = "addOutlineStyles" =>
               /\ BlocksOf(head, k) # {}
               /\ \A i \in BlocksOf(head, k) : head[i].html = lastOn[k].css
        /\ lastOn[k].op = "clearStyles" => BlocksOf(head, k) = {}

(* C2's case: a block that an apply made was cleared, while another key's *)
(* apply, made earlier, still stands after a later call on another key.   *)
C2_Witness ==
    /\ last.op = "clearStyles"
    /\ BlocksOf(last.before, LastKey) # {}
    /\ lastOn[LastKey].op = "clearStyles"
    /\ \E k \in Keys : lastOn[k].op = "addOutlineStyles" /\ BlocksOf(head, k) # {}

(* C3: addOutlineStyles(k, t2) on a key whose block holds another text leaves *)
(* exactly one block for k, the same element at the same place, with content  *)
(* t2: the one DOM mutation is the write of that element's content.           *)
C3_ReplacedInPlace ==
    (/\ last.op = "addOutlineStyles"
     /\ \E i \in BlocksOf(last.before, LastKey) : last.before[i].html # last.css)
    => \E i \in BlocksOf(last.before, LastKey) :
          /\ head = [last.before EXCEPT ![i].html = last.css]
          /\ Cardinality(BlocksOf(head, LastKey)) = 1
          /\ last.ops = <<Op("innerHTML", last.before[i].node)>>
          /\ last.err = ""

(* C3's case: a second apply with another text, with another key's block beside it. *)
C3_Witness ==
    /\ last.op = "addOutlineStyles"
    /\ \E i \in BlocksOf(last.before, LastKey) : last.before[i].html # last.css
    /\ Len(head) >= 2

(* C4: a second addOutlineStyles(k, t) with the text the block already holds *)
(* changes nothing (no element made, no content written), and a second       *)
(* clearStyles with the same argument changes nothing either.                *)
C4_Idempotent ==
    /\ (/\ last.op = "addOutlineStyles"
         /\ \E i \in BlocksOf(last.before, LastKey) : last.before[i].html = last.css)
        => /\ head = last.before
           /\ last.ops = <<>>
           /\ last.err = ""
    /\ \A k \in Keys, t \in Texts :
          LET once == addOutlineStyles(Doc(head, headAttached, nextNode), k, t)
              twice == addOutlineStyles(Doc(once.head, headAttached, once.nextNode), k, t)
          IN  twice.head = once.head /\ twice.nextNode = once.nextNode /\ twice.ops = <<>>
    /\ \A selector \in ClearArgs :
          LET once == clearStyles(Doc(head, headAttached, nextNode), selector)
              twice == clearStyles(Doc(once.head, headAttached, once.nextNode), selector)
          IN  twice.head = once.head /\ twice.ops = <<>> /\ twice.err = ""

(* C4's case: the same text applied again to a key that has a block. *)
C4_Witness ==
    /\ last.op = "addOutlineStyles"
    /\ \E i \in BlocksOf(last.before, LastKey) : last.before[i].html = last.css
    /\ Len(head) >= 2

(* C5: clearStyles(k) on a key with no block raises nothing and leaves the *)
(* blocks of every key as they were.                                       *)
C5_ClearAbsentIsNoOp ==
    (/\ last.op = "clearStyles"
     /\ \A i \in 1..Len(last.selectors) : BlocksOf(last.before, last.selectors[i]) = {})
    => /\ last.err = ""
       /\ head = last.before
       /\ last.ops = <<>>

(* C5's case: a key without a block was cleared while other keys had blocks. *)
C5_Witness ==
    /\ last.op = "clearStyles"
    /\ ~last.isArray
    /\ BlocksOf(last.before, LastKey) = {}
    /\ Len(last.before) >= 2

(* C10: addOutlineStyles(k, t) leaves the blocks of every other key as they  *)
(* were (presence, element, content, order), and clearStyles, given a key or *)
(* an array of keys, removes exactly the blocks of the keys it is given.     *)
OtherBlocks(h, selectors) ==
    LET Keep(b) == ~Listed(selectors, b.id) IN SelectSeq(h, Keep)

C10_OnlyTheGivenKeys ==
    /\ last.op = "addOutlineStyles" =>
           OtherBlocks(head, last.selectors) = OtherBlocks(last.before, last.selectors)
    /\ last.op = "clearStyles" => head = OtherBlocks(last.before, last.selectors)

(* C10's case: an array of two keys with blocks was cleared and a third key's block stayed. *)
C10_Witness ==
    /\ last.op = "clearStyles"
    /\ last.isArray
    /\ Len(last.selectors) = 2
    /\ last.selectors[1] # last.selectors[2]
    /\ \A i \in 1..2 : BlocksOf(last.before, last.selectors[i]) # {}
    /\ Len(head) = 1

----------------------------------------------------------------------------
(* The claim about a surface that is not there, over SpecSurface. *)

(* C6 as stated: a call made while the surface is unavailable fails with an *)
(* error the caller sees, and changes no block.                             *)
C6_FailsWhenSurfaceUnavailable ==
    (last.op # "none" /\ ~last.attached) => (last.err # "" /\ head = last.before)

(* C6, amended: while document.head is missing, addOutlineStyles throws (a     *)
(* TypeError, which the caller sees), clearStyles returns without any error,   *)
(* and either way the blocks stay as they were until the next call: nothing is *)
(* retried when the surface comes back.                                        *)
C6_NoEffectWhenSurfaceUnavailable ==
    (last.op # "none" /\ ~last.attached) =>
        /\ head = last.before
        /\ last.op = "addOutlineStyles" => last.err = "TypeError"
        /\ last.op = "clearStyles" => last.err = "" /\ last.ops = <<>>

(* C6's case: a key with a block was applied with another text while the *)
(* surface was away, and the surface has come back since.                *)
C6_Witness ==
    /\ last.op = "addOutlineStyles"
    /\ ~last.attached
    /\ headAttached
    /\ \E i \in BlocksOf(last.before, LastKey) : last.before[i].html # last.css

----------------------------------------------------------------------------
(* The claims about the decorator. *)

KeyOf(c) == SelectorId(ctx[c].viewMode = "docs", ctx[c].id)

(* The story has been rendered since its context and the toggle last changed. *)
Settled(c) ==
    /\ ctx[c].mounted
    /\ ctx[c].rendered = [done |-> TRUE, outlineActive |-> outlineActive,
                          viewMode |-> ctx[c].viewMode, id |-> ctx[c].id]

(* C7: once a story has been rendered for the current toggle value, a block *)
(* exists under its key exactly when the toggle is active.                  *)
C7_BlockFollowsToggle ==
    \A c \in 1..NumContexts :
        Settled(c) => (outlineActive <=> BlocksOf(head, KeyOf(c)) # {})

====
